---- MODULE Spec2Model ----
(***************************************************************************)
(* Ferrellgas Home Assistant integration: the data-acquisition pipeline    *)
(* (login, account summary, per-tank delivery enrichment), the parser of   *)
(* the account summary, the choice and the parse of a tank's last          *)
(* delivery, the derived sensor values, the low-propane flag, a tank       *)
(* entity read between refresh cycles and the setup wizard.                *)
(*                                                                         *)
(* Conventions of the model                                                *)
(*  - An optional value (Python None / a value) is the empty sequence or a *)
(*    one-element sequence: None == <<>>, Some(x) == <<x>>.                *)
(*  - A JSON value met in a payload is a record [t, s, n]: t is its type,  *)
(*    s its text when it is a string, n its number.  A float is kept as a  *)
(*    fixed-point number of tenths (n = 10 * value); an int as itself.     *)
(*    An array or an object met where a scalar is read is kept by its      *)
(*    type and its Python text only.                                       *)
(*  - A float computed by the program (a capacity, a percentage, a price)  *)
(*    is a number of tenths; a value rounded to two decimals is a number   *)
(*    of hundredths.  round() is round-half-to-even on the exact decimal.  *)
(***************************************************************************)
EXTENDS Integers, Sequences, FiniteSets, TLC

VARIABLES
    pc,            \* position of the operation under way
    response,      \* client calls: the HTTP exchange the session produced
    call_result,   \* client calls: what the client method returned or raised
    payload,       \* the decoded account-summary object
    account_data,  \* the FerrellgasAccountData built from it (None before)
    sensor_tank,   \* sensors: the FerrellgasTankData a sensor reads
    native_value,  \* sensors: the value of each tank sensor, by key
    entry,         \* refresh: config_entry.data (username, password, account_id)
    access_token,  \* refresh: the token of the cycle under way ("" before login)
    tank_i,        \* refresh: position in account_data.tanks of the enrichment loop
    latest,        \* refresh: the order whose detail is being fetched (None if none)
    requests,      \* refresh: the HTTP requests of the cycle, in order of issue
    result,        \* refresh: how _async_update_data ended
    account_obj,   \* refresh: which object account_data is (0: none built yet)
    data_obj,      \* host: which object coordinator.data is (0: no data yet)
    data_written,  \* host: a field of that object was assigned after its return
    options,       \* low-propane flag: config_entry.options' threshold, if set
    entity_tank_id,\* low-propane flag: the entity's _installed_product_id
    is_on,         \* low-propane flag: what is_on returned
    last_update_success, \* host: whether the last refresh returned a snapshot
    refreshes,     \* tank entity: refresh cycles ended since the platform setup
    available,     \* tank entity: what available returned
    flow_user_input, \* setup wizard: self._user_input (None before a submission)
    flow_accounts, \* setup wizard: self._accounts
    flow_fetched,  \* setup wizard: the account ids of each validation that succeeded
    flow_result    \* setup wizard: the FlowResult of the last step

clientVars == <<response, call_result>>
parseVars == <<payload, account_data>>
sensorVars == <<sensor_tank, native_value, options, entity_tank_id, is_on,
                last_update_success, refreshes, available>>
flowVars == <<flow_user_input, flow_accounts, flow_fetched, flow_result>>
hostVars == <<account_obj, data_obj, data_written>>
refreshVars == <<entry, access_token, tank_i, latest, requests, result, hostVars>>
vars == <<pc, response, call_result, payload, account_data, sensor_tank, native_value,
          entry, access_token, tank_i, latest, requests, result,
          account_obj, data_obj, data_written, options, entity_tank_id, is_on,
          last_update_success, refreshes, available,
          flow_user_input, flow_accounts, flow_fetched, flow_result>>

None == <<>>
Some(x) == <<x>>

(***************************************************************************)
(* JSON values                                                             *)
(***************************************************************************)
JAbsent == [t |-> "absent", s |-> "", n |-> 0]
JNull == [t |-> "null", s |-> "", n |-> 0]
JStr(x) == [t |-> "str", s |-> x, n |-> 0]
JInt(i) == [t |-> "int", s |-> "", n |-> i]
JFloat(tenths) == [t |-> "float", s |-> "", n |-> tenths]
JBool(b) == [t |-> "bool", s |-> "", n |-> IF b THEN 1 ELSE 0]
\* the array [1] and the object {"a": 1}
JArray == [t |-> "array", s |-> "[1]", n |-> 0]
JObject == [t |-> "object", s |-> "{'a': 1}", n |-> 0]

\* Python truthiness of dict.get(key): None (absent or null), "", 0, 0.0 and
\* False are falsy.
Truthy(v) ==
    CASE v.t = "str" -> v.s # ""
      [] v.t \in {"int", "float", "bool"} -> v.n # 0
      [] v.t \in {"array", "object"} -> TRUE
      [] OTHER -> FALSE

\* Python str(v)
PyStr(v) ==
    CASE v.t = "str" -> v.s
      [] v.t = "int" -> ToString(v.n)
      [] v.t = "float" -> ToString(v.n \div 10) \o "." \o ToString(v.n % 10)
      [] v.t = "bool" -> IF v.n = 1 THEN "True" ELSE "False"
      [] v.t \in {"array", "object"} -> v.s
      [] OTHER -> "None"

\* isinstance(v, str) and v
IsNonEmptyStr(v) == v.t = "str" /\ v.s # ""

(***************************************************************************)
(* Transport.  An HTTP exchange is [net, status, shape, data, items]: net   *)
(* is how the session call ended ("ok": a response arrived; "ClientError": *)
(* an aiohttp.ClientError; "Timeout": the total timeout fired, which       *)
(* aiohttp reports as asyncio.TimeoutError, not a ClientError), status the *)
(* HTTP status, shape what the body decodes to ("dict", "list", "scalar",  *)
(* "empty": an empty body, decoded as None; "invalid": not JSON, for which *)
(* json() with content_type=None raises json.JSONDecodeError), data the    *)
(* decoded object when shape = "dict" and items the decoded array when     *)
(* shape = "list".                                                         *)
(* A call's result is [exc, msg, val]: exc is "none" or the class raised   *)
(* ("Auth": FerrellgasAuthenticationError, "Conn": FerrellgasConnection-   *)
(* Error, "Api": plain FerrellgasApiError, "Other": an exception outside   *)
(* the FerrellgasApiError hierarchy).                                      *)
(***************************************************************************)
Returned(v) == [exc |-> "none", msg |-> "", val |-> v]
Raised(e, m, dflt) == [exc |-> e, msg |-> m, val |-> dflt]

\* class hierarchy: Auth and Conn derive from FerrellgasApiError
IsFerrellgasApiError(e) == e \in {"Api", "Auth", "Conn"}

AuthStatuses == {401, 403}

async_handle_response_generic_first(r, dflt) ==
    IF r.status >= 400
    THEN Raised("Api", "API request failed: HTTP " \o ToString(r.status), dflt)
    ELSE IF r.status \in AuthStatuses
    THEN Raised("Auth", "Authentication error: HTTP " \o ToString(r.status), dflt)
    ELSE IF r.shape = "invalid"
    THEN Raised("Other", "JSONDecodeError", dflt)
    ELSE IF r.shape # "dict"
    THEN Raised("Api", "API returned unexpected payload type", dflt)
    ELSE Returned(r.data)

async_handle_response(r, dflt) ==
    IF r.status \in AuthStatuses
    THEN Raised("Auth", "Authentication error: HTTP " \o ToString(r.status), dflt)
    ELSE IF r.status >= 400
    THEN Raised("Api", "API request failed: HTTP " \o ToString(r.status), dflt)
    ELSE IF r.shape = "invalid"
    THEN Raised("Other", "JSONDecodeError", dflt)
    ELSE IF r.shape # "dict"
    THEN Raised("Api", "API returned unexpected payload type", dflt)
    ELSE Returned(r.data)

async_get(r, dflt) ==
    CASE r.net = "ClientError" -> Raised("Conn", "GET request failed", dflt)
      [] r.net = "Timeout" -> Raised("Other", "TimeoutError", dflt)
      [] OTHER -> async_handle_response(r, dflt)

async_post(r, dflt) ==
    CASE r.net = "ClientError" -> Raised("Conn", "POST request failed", dflt)
      [] r.net = "Timeout" -> Raised("Other", "TimeoutError", dflt)
      [] OTHER -> async_handle_response(r, dflt)

\* the result is always a list: a bare object becomes a one-element list
async_get_list(r) ==
    CASE r.net = "ClientError" -> Raised("Conn", "GET request failed", <<>>)
      [] r.net = "Timeout" -> Raised("Other", "TimeoutError", <<>>)
      [] r.status \in AuthStatuses ->
            Raised("Auth", "Authentication error: HTTP " \o ToString(r.status), <<>>)
      [] r.status >= 400 ->
            Raised("Api", "API request failed: HTTP " \o ToString(r.status), <<>>)
      [] r.shape = "invalid" -> Raised("Other", "JSONDecodeError", <<>>)
      [] r.shape = "list" -> Returned(r.items)
      [] r.shape = "dict" -> Returned(<<r.data>>)
      [] OTHER -> Returned(<<>>)

(***************************************************************************)
(* Authenticator                                                           *)
(***************************************************************************)
NoLoginDict == [success |-> JAbsent, accessToken |-> JAbsent, error |-> JAbsent]

async_login_no_token_check(r) ==
    LET posted == async_post(r, NoLoginDict)
        resp == posted.val
    IN  IF posted.exc # "none" THEN Raised(posted.exc, posted.msg, "")
        ELSE IF ~Truthy(resp.success)
        THEN Raised("Auth",
                    PyStr(IF Truthy(resp.error) THEN resp.error ELSE JStr("Login failed")),
                    "")
        ELSE Returned(resp.accessToken.s)

\* r: the exchange of the login POST, whose decoded object is a login dict
async_login(r) ==
    LET posted == async_post(r, NoLoginDict)
        resp == posted.val
    IN  IF posted.exc # "none" THEN Raised(posted.exc, posted.msg, "")
        ELSE IF ~Truthy(resp.success)
        THEN Raised("Auth",
                    PyStr(IF Truthy(resp.error) THEN resp.error ELSE JStr("Login failed")),
                    "")
        ELSE IF ~IsNonEmptyStr(resp.accessToken)
        THEN Raised("Auth", "Login succeeded but access token missing", "")
        ELSE Returned(resp.accessToken.s)

(***************************************************************************)
(* Parser of the account summary.                                          *)
(* A decoded payload is [FinancialSummary, Name, SiteSummary]; a list      *)
(* valued key is [isList, items] (a missing key reads as its default, the  *)
(* empty list), an entry of a list is a record with isDict and, when it is *)
(* an object, its keys.                                                    *)
(***************************************************************************)
to_float(value) ==
    IF value.t \in {"int", "bool"} THEN Some(10 * value.n)
    ELSE IF value.t = "float" THEN Some(value.n)
    ELSE None

\* Strings the host's dt_util.parse_datetime accepts, with the datetime each
\* denotes ([d, t, tz]; tz = "" when the string names no zone), strings only
\* date.fromisoformat accepts, and strings that have the format of a datetime
\* but name no valid one (30 February): on these dt_util.parse_datetime
\* raises ValueError instead of returning None.
DatetimeStrings == {"2024-05-01T10:00:00", "2024-05-01T10:00:00+02:00"}
DateStrings == {"2024-05-01"}
InvalidDatetimeStrings == {"2024-02-30T10:00:00"}

\* _parse_datetime(value) raises: the call of dt_util.parse_datetime is
\* outside the try of api.py 443-452
parse_datetime_raises(value) == IsNonEmptyStr(value) /\ value.s \in InvalidDatetimeStrings
DatetimeOf(str) ==
    IF str = "2024-05-01T10:00:00" THEN [d |-> "2024-05-01", t |-> "10:00:00", tz |-> ""]
    ELSE [d |-> "2024-05-01", t |-> "10:00:00", tz |-> "+02:00"]

parse_datetime(value) ==
    IF ~IsNonEmptyStr(value) THEN None
    ELSE IF value.s \in DatetimeStrings
    THEN LET parsed == DatetimeOf(value.s)
         IN  IF parsed.tz = "" THEN Some([parsed EXCEPT !.tz = "UTC"]) ELSE Some(parsed)
    ELSE IF value.s \in DateStrings
    THEN Some([d |-> value.s, t |-> "00:00:00", tz |-> "UTC"])
    ELSE None

\* api.py 384-386
installed_product_id_of(tank, site_id, tank_index) ==
    IF IsNonEmptyStr(tank.InstalledProductId)
    THEN tank.InstalledProductId.s
    ELSE site_id \o "_" \o ToString(tank_index)

parse_tank(tank, tank_index, site_id, site_name) ==
    [installed_product_id |-> installed_product_id_of(tank, site_id, tank_index),
     site_id |-> site_id,
     site_name |-> site_name,
     product_description |->
         PyStr(IF Truthy(tank.ProductDescription) THEN tank.ProductDescription
               ELSE JStr("Ferrellgas Tank")),
     product_id |->
         IF tank.ProductId.t \in {"absent", "null"} THEN None
         ELSE Some(PyStr(tank.ProductId)),
     full_capacity |-> to_float(tank.FullCapacity),
     fill_capacity |-> to_float(tank.FillCapacity),
     est_curr_pct |-> to_float(tank.EstCurrPct),
     estimated_percentage_date |-> parse_datetime(tank.EstimatedPercentageDate),
     last_delivery |-> None]

\* a variant that numbers only the entries it keeps
RECURSIVE parse_kept_entries(_, _, _, _, _)
parse_kept_entries(items, k, n_kept, site_id, site_name) ==
    IF k > Len(items) THEN <<>>
    ELSE IF ~items[k].isDict
    THEN parse_kept_entries(items, k + 1, n_kept, site_id, site_name)
    ELSE <<parse_tank(items[k], n_kept, site_id, site_name)>>
         \o parse_kept_entries(items, k + 1, n_kept + 1, site_id, site_name)

parse_ip_summary_kept_index(items, k, site_id, site_name) ==
    parse_kept_entries(items, k, 0, site_id, site_name)

\* the inner loop over enumerate(ip_summary), from position k (1-based)
RECURSIVE parse_ip_summary(_, _, _, _)
parse_ip_summary(items, k, site_id, site_name) ==
    IF k > Len(items) THEN <<>>
    ELSE IF ~items[k].isDict
    THEN parse_ip_summary(items, k + 1, site_id, site_name)
    ELSE <<parse_tank(items[k], k - 1, site_id, site_name)>>
         \o parse_ip_summary(items, k + 1, site_id, site_name)

parse_site(site, site_index) ==
    IF ~site.isDict THEN <<>>
    ELSE LET site_id == PyStr(IF Truthy(site.SiteId) THEN site.SiteId
                              ELSE JStr("site_" \o ToString(site_index)))
             site_name == IF Truthy(site.SiteName) THEN PyStr(site.SiteName)
                          ELSE IF Truthy(site.Address1) THEN PyStr(site.Address1)
                          ELSE site_id
         IN  IF ~site.IPSummary.isList THEN <<>>
             ELSE parse_ip_summary(site.IPSummary.items, 1, site_id, site_name)

\* the outer loop over enumerate(site_summary), from position i (1-based)
RECURSIVE parse_site_summary(_, _)
parse_site_summary(items, i) ==
    IF i > Len(items) THEN <<>>
    ELSE parse_site(items[i], i - 1) \o parse_site_summary(items, i + 1)

\* _parse_account_summary raises: the exception of a tank the loops reach
account_summary_raises(p) ==
    /\ p.SiteSummary.isList
    /\ \E i \in 1..Len(p.SiteSummary.items) :
          LET site == p.SiteSummary.items[i]
          IN  /\ site.isDict
              /\ site.IPSummary.isList
              /\ \E k \in 1..Len(site.IPSummary.items) :
                    /\ site.IPSummary.items[k].isDict
                    /\ parse_datetime_raises(
                          site.IPSummary.items[k].EstimatedPercentageDate)

parse_account_summary(account_id, p) ==
    [account_id |-> account_id,
     account_name |-> IF p.Name.t = "absent" THEN account_id ELSE PyStr(p.Name),
     balance |-> IF p.FinancialSummary.isDict THEN to_float(p.FinancialSummary.Balance)
                 ELSE None,
     tanks |-> IF p.SiteSummary.isList THEN parse_site_summary(p.SiteSummary.items, 1)
               ELSE <<>>]

(***************************************************************************)
(* Enricher: the most recent delivery of a tank.                           *)
(* An entry of the order list is [isDict, Type, SOCompleteDate,            *)
(* CreatedDate, ID, ServiceDescription]; an order detail is [OrderNumber,  *)
(* OrderCreatedDate, CompleteDate, OrderStatusDescription, OrderStatus,    *)
(* GrandTotal, TotalTax, Lines], a line [isDict, Product, Quantity, UOM,   *)
(* UnitPrice, TotalPrice].                                                 *)
(***************************************************************************)
BlankOrderDetail ==
    [order_id |-> "", order_date |-> None, complete_date |-> None, status |-> "",
     service_description |-> "", grand_total |-> 0, total_tax |-> 0,
     propane_gallons |-> None, propane_price_per_gallon |-> None,
     propane_subtotal |-> None, fuel_surcharge |-> None, hazmat_fee |-> None,
     lines |-> <<>>]

\* self._to_float(x) or 0.0
to_float_or_zero(value) == IF to_float(value) = None THEN 0 ELSE to_float(value)[1]

\* x or y on two decoded values
PyOr(x, y) == IF Truthy(x) THEN x ELSE y

parse_order_line(raw_line) ==
    [product |-> PyStr(PyOr(raw_line.Product, JStr(""))),
     quantity |-> to_float_or_zero(raw_line.Quantity),
     unit_of_measure |-> PyStr(PyOr(raw_line.UOM, JStr(""))),
     unit_price |-> to_float_or_zero(raw_line.UnitPrice),
     total_price |-> to_float_or_zero(raw_line.TotalPrice)]

\* the loop over raw_lines from position k, acc holding the fields set so far
RECURSIVE parse_order_lines(_, _, _)
parse_order_lines(raw_lines, k, acc) ==
    IF k > Len(raw_lines) THEN acc
    ELSE IF ~raw_lines[k].isDict THEN parse_order_lines(raw_lines, k + 1, acc)
    ELSE LET line == parse_order_line(raw_lines[k])
             added == [acc EXCEPT !.lines = Append(@, line)]
         IN  parse_order_lines(raw_lines, k + 1,
                CASE line.product = "PROPANE" ->
                        [added EXCEPT !.propane_gallons = Some(line.quantity),
                                      !.propane_price_per_gallon = Some(line.unit_price),
                                      !.propane_subtotal = Some(line.total_price)]
                  [] line.product = "FUEL_SURCHARGE" ->
                        [added EXCEPT !.fuel_surcharge = Some(line.total_price)]
                  [] line.product = "HAZMAT_FEE" ->
                        [added EXCEPT !.hazmat_fee = Some(line.total_price)]
                  [] OTHER -> added)

\* summary.get("ID", ""): the default only replaces a missing key
GetIdOrEmpty(summary) == IF summary.ID.t = "absent" THEN JStr("") ELSE summary.ID

\* a variant that reads the header fields and leaves the lines out
parse_order_detail_header_only(detail, summary) ==
    [BlankOrderDetail EXCEPT
        !.order_id = PyStr(PyOr(detail.OrderNumber, GetIdOrEmpty(summary))),
        !.grand_total = to_float_or_zero(detail.GrandTotal),
        !.total_tax = to_float_or_zero(detail.TotalTax)]

parse_order_detail(detail, summary) ==
    LET head ==
            [BlankOrderDetail EXCEPT
                !.order_id = PyStr(PyOr(detail.OrderNumber, GetIdOrEmpty(summary))),
                !.order_date = parse_datetime(detail.OrderCreatedDate),
                !.complete_date =
                    parse_datetime(PyOr(detail.CompleteDate, summary.SOCompleteDate)),
                !.status = PyStr(PyOr(detail.OrderStatusDescription,
                                      PyOr(detail.OrderStatus, JStr("")))),
                !.service_description = PyStr(PyOr(summary.ServiceDescription, JStr(""))),
                !.grand_total = to_float_or_zero(detail.GrandTotal),
                !.total_tax = to_float_or_zero(detail.TotalTax)]
    IN  IF detail.Lines.isList THEN parse_order_lines(detail.Lines.items, 1, head)
        ELSE head

\* the strings met as sort keys, in lexicographic (code point) order
KeyStrings == <<"", "2024-01-10", "2024-03-05", "9/1/2023">>
StrRank(str) == CHOOSE i \in 1..Len(KeyStrings) : KeyStrings[i] = str

sort_key_completion_only(o) == PyOr(o.SOCompleteDate, JStr(""))

sort_key(o) == PyOr(o.SOCompleteDate, PyOr(o.CreatedDate, JStr("")))

\* a < b on two sort keys, for keys Python can compare (two strings, or two
\* numbers)
KeysComparable(a, b) == (a.t = "str") <=> (b.t = "str")
KeyLess(a, b) == IF a.t = "str" THEN StrRank(a.s) < StrRank(b.s) ELSE a.n < b.n

delivery_candidates_of_any_type(orders_raw) == SelectSeq(orders_raw, LAMBDA o : o.isDict)

\* delivery_orders of api.py 157-165
delivery_candidates(orders_raw) ==
    LET typed == SelectSeq(orders_raw, LAMBDA o : o.isDict /\ o.Type = JStr("D"))
    IN  IF typed # <<>> THEN typed ELSE SelectSeq(orders_raw, LAMBDA o : o.isDict)

\* delivery_orders.sort(key=sort_key, reverse=True)[0]: the sort is stable, so
\* the first of the entries with the greatest key; list.sort raises TypeError
\* when it has to compare a string with a number
latest_order(candidates) ==
    IF \E i, j \in 1..Len(candidates) :
           ~KeysComparable(sort_key(candidates[i]), sort_key(candidates[j]))
    THEN Raised("Other", "TypeError", None)
    ELSE LET IsMax(i) ==
                 \A j \in 1..Len(candidates) :
                     ~KeyLess(sort_key(candidates[i]), sort_key(candidates[j]))
             first == CHOOSE i \in 1..Len(candidates) :
                          IsMax(i) /\ \A j \in 1..(i - 1) : ~IsMax(j)
         IN  Returned(Some(candidates[first]))

\* _async_get_last_delivery up to the order-detail request: what it raises,
\* or the order whose detail it goes on to fetch (None: it returns None)
choose_order(listed) ==
    IF listed.exc # "none" THEN Raised(listed.exc, listed.msg, None)
    ELSE IF listed.val = <<>> THEN Returned(None)
    ELSE IF delivery_candidates(listed.val) = <<>> THEN Returned(None)
    ELSE LET picked == latest_order(delivery_candidates(listed.val))
         IN  IF picked.exc # "none" THEN picked
             ELSE IF PyStr(GetIdOrEmpty(picked.val[1])) = "" THEN Returned(None)
             ELSE picked

\* _parse_order_detail raises: the ValueError of one of its two dates
order_detail_raises(detail, summary) ==
    \/ parse_datetime_raises(detail.OrderCreatedDate)
    \/ parse_datetime_raises(PyOr(detail.CompleteDate, summary.SOCompleteDate))

\* the rest of _async_get_last_delivery, given the detail request's result
delivery_of(fetched, summary) ==
    IF fetched.exc # "none" THEN Raised(fetched.exc, fetched.msg, None)
    ELSE IF order_detail_raises(fetched.val, summary)
    THEN Raised("Other", "ValueError", None)
    ELSE Returned(Some(parse_order_detail(fetched.val, summary)))

(***************************************************************************)
(* Derived sensor values (TANK_SENSORS).  pct, capacities and prices are   *)
(* tenths; a value rounded to one decimal is a number of tenths, a value   *)
(* rounded to two decimals a number of hundredths.                         *)
(***************************************************************************)
\* round-half-to-even of n / d to an integer, d > 0
RoundDiv(n, d) ==
    LET q == n \div d
        r == n % d
    IN  IF 2 * r < d THEN q
        ELSE IF 2 * r > d THEN q + 1
        ELSE IF q % 2 = 0 THEN q ELSE q + 1

HasPrice(t) ==
    t.last_delivery # None /\ t.last_delivery[1].propane_price_per_gallon # None
PriceOf(t) == t.last_delivery[1].propane_price_per_gallon[1]

tank_level(t) == t.est_curr_pct

\* a variant that shows 0 for a missing reading
estimated_gallons_zero_default(t) ==
    IF t.est_curr_pct # None /\ t.full_capacity # None
    THEN Some(RoundDiv(t.est_curr_pct[1] * t.full_capacity[1], 1000))
    ELSE Some(0)

\* round((pct / 100.0) * full, 1): (p/10)/100 * (f/10) = p*f / 10^4
estimated_gallons(t) ==
    IF t.est_curr_pct # None /\ t.full_capacity # None
    THEN Some(RoundDiv(t.est_curr_pct[1] * t.full_capacity[1], 1000))
    ELSE None

\* round((pct / 100.0) * full * price, 2): p*f*c / 10^5
estimated_value(t) ==
    IF t.est_curr_pct # None /\ t.full_capacity # None /\ HasPrice(t)
    THEN Some(RoundDiv(t.est_curr_pct[1] * t.full_capacity[1] * PriceOf(t), 1000))
    ELSE None

gallons_used_since_fill_unguarded(t) ==
    IF t.fill_capacity # None /\ t.est_curr_pct # None /\ t.full_capacity # None
    THEN Some(RoundDiv(1000 * t.fill_capacity[1] - t.est_curr_pct[1] * t.full_capacity[1],
                       1000))
    ELSE None

\* round(fill - (pct / 100.0) * full, 1) if fill >= (pct / 100.0) * full
gallons_used_since_fill(t) ==
    IF /\ t.fill_capacity # None /\ t.est_curr_pct # None /\ t.full_capacity # None
       /\ 1000 * t.fill_capacity[1] >= t.est_curr_pct[1] * t.full_capacity[1]
    THEN Some(RoundDiv(1000 * t.fill_capacity[1] - t.est_curr_pct[1] * t.full_capacity[1],
                       1000))
    ELSE None

\* round((fill - (pct / 100.0) * full) * price, 2)
estimated_usage_cost(t) ==
    IF /\ t.fill_capacity # None /\ t.est_curr_pct # None /\ t.full_capacity # None
       /\ HasPrice(t)
       /\ 1000 * t.fill_capacity[1] >= t.est_curr_pct[1] * t.full_capacity[1]
    THEN Some(RoundDiv((1000 * t.fill_capacity[1] - t.est_curr_pct[1] * t.full_capacity[1])
                          * PriceOf(t),
                       1000))
    ELSE None

\* _find_tank of entity.py: the first tank of coordinator.data with the id
find_tank(tanks, id) ==
    IF \E k \in 1..Len(tanks) : tanks[k].installed_product_id = id
    THEN Some(tanks[CHOOSE k \in 1..Len(tanks) :
                        /\ tanks[k].installed_product_id = id
                        /\ \A m \in 1..(k - 1) : tanks[m].installed_product_id # id])
    ELSE None

DEFAULT_LOW_PROPANE_THRESHOLD == 20

\* options.get(CONF_LOW_PROPANE_THRESHOLD, DEFAULT_LOW_PROPANE_THRESHOLD), an
\* integer of 1..100 when the options flow stored it
low_propane_threshold(opts) ==
    IF opts = None THEN DEFAULT_LOW_PROPANE_THRESHOLD ELSE opts[1]

low_propane_at_or_below(tanks, id, opts) ==
    LET found == find_tank(tanks, id)
    IN  IF found = None \/ found[1].est_curr_pct = None THEN None
        ELSE Some(found[1].est_curr_pct[1] <= 10 * low_propane_threshold(opts))

\* FerrellgasLowPropaneBinarySensor.is_on; est_curr_pct is in tenths
low_propane_is_on(tanks, id, opts) ==
    LET found == find_tank(tanks, id)
    IN  IF found = None \/ found[1].est_curr_pct = None THEN None
        ELSE Some(found[1].est_curr_pct[1] < 10 * low_propane_threshold(opts))

\* value_fn of each description, by key
value_fn(t) ==
    [tank_level |-> tank_level(t),
     estimated_gallons |-> estimated_gallons(t),
     estimated_value |-> estimated_value(t),
     tank_capacity |-> t.full_capacity,
     fill_capacity |-> t.fill_capacity,
     last_reading_date |-> t.estimated_percentage_date,
     last_delivery_date |->
         IF t.last_delivery # None THEN t.last_delivery[1].complete_date ELSE None,
     last_delivery_gallons |->
         IF t.last_delivery # None THEN t.last_delivery[1].propane_gallons ELSE None,
     last_price_per_gallon |->
         IF t.last_delivery # None THEN t.last_delivery[1].propane_price_per_gallon
         ELSE None,
     last_delivery_total |->
         IF t.last_delivery # None THEN Some(t.last_delivery[1].grand_total) ELSE None,
     gallons_used_since_fill |-> gallons_used_since_fill(t),
     estimated_usage_cost |-> estimated_usage_cost(t)]

(***************************************************************************)
(* Account-summary payloads of bounded size                                *)
(***************************************************************************)
MaxSites == 2    \* sites in one payload
MaxTanks == 3    \* tank entries in one payload, over all its sites

ListVal(items) == [isList |-> TRUE, items |-> items]
NotAList == [isList |-> FALSE, items |-> <<>>]

BlankTank ==
    [isDict |-> TRUE, InstalledProductId |-> JAbsent, ProductDescription |-> JAbsent,
     ProductId |-> JAbsent, FullCapacity |-> JAbsent, FillCapacity |-> JAbsent,
     EstCurrPct |-> JAbsent, EstimatedPercentageDate |-> JAbsent]
NonDictTank == [BlankTank EXCEPT !.isDict = FALSE]
TankWithId(id) == [BlankTank EXCEPT !.InstalledProductId = id]
IdValues == {JStr("A"), JStr("S1_0"), JAbsent, JStr(""), JInt(5)}
TankEntries == {NonDictTank} \cup {TankWithId(id) : id \in IdValues}

BlankSite ==
    [isDict |-> TRUE, SiteId |-> JAbsent, SiteName |-> JAbsent, Address1 |-> JAbsent,
     IPSummary |-> ListVal(<<>>)]
NonDictSite == [BlankSite EXCEPT !.isDict = FALSE]

\* the kinds of site: not an object, an object whose IPSummary is not a list,
\* an object with SiteId "S1", an object without SiteId
SiteKinds == {"nondict", "nolist", "S1", "noid"}
SiteOfKind(kind, entries) ==
    CASE kind = "nondict" -> NonDictSite
      [] kind = "nolist" -> [BlankSite EXCEPT !.SiteId = JStr("S1"), !.IPSummary = NotAList]
      [] kind = "S1" -> [BlankSite EXCEPT !.SiteId = JStr("S1"), !.IPSummary = ListVal(entries)]
      [] OTHER -> [BlankSite EXCEPT !.IPSummary = ListVal(entries)]

RECURSIVE SumTo(_, _)
SumTo(ns, i) == IF i = 0 THEN 0 ELSE ns[i] + SumTo(ns, i - 1)

BlankPayload ==
    [FinancialSummary |-> [isDict |-> FALSE, Balance |-> JAbsent], Name |-> JAbsent,
     SiteSummary |-> ListVal(<<>>)]

\* the payload whose i-th site is of kind kinds[i] and holds the next ns[i]
\* entries of flat
PayloadOf(kinds, ns, flat) ==
    [BlankPayload EXCEPT !.SiteSummary =
        ListVal([i \in 1..Len(kinds) |->
                    SiteOfKind(kinds[i],
                               [k \in 1..ns[i] |-> flat[SumTo(ns, i - 1) + k]])])]

\* payload is one of the payloads of at most MaxSites sites and MaxTanks entries
IsBoundedPayload(p) ==
    \/ p = [BlankPayload EXCEPT !.SiteSummary = NotAList]
    \/ \E n \in 0..MaxSites :
         \E kinds \in [1..n -> SiteKinds] :
           \E ns \in [1..n -> 0..MaxTanks] :
             /\ SumTo(ns, n) <= MaxTanks
             /\ \A i \in 1..n : kinds[i] \in {"nondict", "nolist"} => ns[i] = 0
             /\ \E flat \in [1..SumTo(ns, n) -> TankEntries] :
                  p = PayloadOf(kinds, ns, flat)

\* payloads of one tank whose numeric and date fields take every kind of value
NumberValues ==
    {JAbsent, JNull, JStr("80"), JInt(80), JFloat(805), JInt(150), JFloat(-50),
     JBool(TRUE), JBool(FALSE), JArray, JObject}
DateValues ==
    {JAbsent, JStr("2024-05-01T10:00:00"), JStr("2024-05-01"), JStr("soon"),
     JStr("2024-02-30T10:00:00")}
FieldTanks ==
    {[TankWithId(JStr("A")) EXCEPT !.FullCapacity = f, !.FillCapacity = g,
                                   !.EstCurrPct = p, !.EstimatedPercentageDate = d] :
        f \in NumberValues, g \in {JAbsent, JInt(100)}, p \in NumberValues,
        d \in DateValues}
FieldPayloads == {PayloadOf(<<"S1">>, <<1>>, <<t>>) : t \in FieldTanks}

AccountId == "ACC1"

\* a tank record with every optional field absent
BlankTankData == parse_tank(BlankTank, 0, "S1", "S1")

(***************************************************************************)
(* Coordinator                                                             *)
(***************************************************************************)
ConfigEntryData == [username |-> "user", password |-> "secret", account_id |-> AccountId]

\* how _async_update_data ends: kind is "snapshot" (data returned), the
\* exception it raises ("ConfigEntryAuthFailed", "UpdateFailed"), or "Other"
\* (an exception it does not catch leaves it unchanged)
NoResult == [kind |-> "none", data |-> None]
ReturnedSnapshot(account) == [kind |-> "snapshot", data |-> Some(account)]

update_data_raises_auth_for_all(exc) ==
    [kind |-> IF IsFerrellgasApiError(exc) THEN "ConfigEntryAuthFailed" ELSE "Other",
     data |-> None]

\* the except clauses of coordinator.py 74-79
update_data_raises(exc) ==
    [kind |-> CASE exc = "Auth" -> "ConfigEntryAuthFailed"
                [] exc = "Conn" -> "UpdateFailed"
                [] exc = "Api" -> "UpdateFailed"
                [] OTHER -> "Other",
     data |-> None]

swallows_plain_api_error_only(exc) == exc = "Api"

\* except FerrellgasApiError of the enrichment loop (api.py 135)
enrichment_swallows(exc) == IsFerrellgasApiError(exc)

goes_on_regardless(res) == TRUE

\* a raise ends async_get_account_summary: the next request is issued only
\* when the call before it returned
goes_on_after(res) == res.exc = "none"

(***************************************************************************)
(* The client's calls, one at a time on an arbitrary HTTP exchange         *)
(***************************************************************************)
Statuses == {200, 304, 400, 401, 403, 404, 500}
Shapes == {"dict", "list", "scalar", "empty", "invalid"}

SuccessValues == {JAbsent, JNull, JBool(FALSE), JBool(TRUE), JInt(0), JInt(1),
                  JStr(""), JStr("yes")}
TokenValues == {JAbsent, JNull, JStr(""), JStr("tokA"), JInt(5)}
ErrorValues == {JAbsent, JNull, JStr(""), JStr("bad creds")}
LoginDicts == [success : SuccessValues, accessToken : TokenValues, error : ErrorValues]

NetFailure(k) ==
    [net |-> k, status |-> 0, shape |-> "empty", data |-> NoLoginDict, items |-> <<>>]
Exchange(st, sh, d, l) ==
    [net |-> "ok", status |-> st, shape |-> sh, data |-> d, items |-> l]

ClientExchanges ==
    {NetFailure("ClientError"), NetFailure("Timeout")}
    \cup {Exchange(st, "dict", d, <<>>) : st \in Statuses, d \in LoginDicts}
    \cup {Exchange(st, "list", NoLoginDict, l) :
             st \in Statuses, l \in {<<>>, <<NoLoginDict>>}}
    \cup {Exchange(st, sh, NoLoginDict, <<>>) :
             st \in Statuses, sh \in Shapes \ {"dict", "list"}}

NoCall == [op |-> "none", res |-> Returned("")]

ClientIdle == response = NetFailure("ClientError") /\ call_result = NoCall
ParseIdle == payload = BlankPayload /\ account_data = None
EntityIdle == last_update_success = TRUE /\ refreshes = 0 /\ available = FALSE
NoFlowResult == [type |-> "none", step_id |-> "", error |-> "", reason |-> "", data |-> None]
FlowIdle ==
    /\ flow_user_input = None
    /\ flow_accounts = <<>>
    /\ flow_fetched = {}
    /\ flow_result = NoFlowResult
SensorIdle ==
    /\ sensor_tank = BlankTankData
    /\ native_value = value_fn(BlankTankData)
    /\ options = None
    /\ entity_tank_id = ""
    /\ is_on = None
    /\ EntityIdle
RefreshIdle ==
    /\ entry = ConfigEntryData
    /\ access_token = ""
    /\ tank_i = 0
    /\ latest = None
    /\ requests = <<>>
    /\ result = NoResult
    /\ account_obj = 0
    /\ data_obj = 0
    /\ data_written = FALSE

InitClient ==
    /\ pc = "call"
    /\ response \in ClientExchanges
    /\ call_result = NoCall
    /\ ParseIdle
    /\ SensorIdle
    /\ FlowIdle
    /\ RefreshIdle

CallGet ==
    /\ pc = "call"
    /\ call_result' = [op |-> "get", res |-> async_get(response, NoLoginDict)]
    /\ pc' = "returned"
    /\ UNCHANGED <<response, parseVars, sensorVars, refreshVars, flowVars>>

CallPost ==
    /\ pc = "call"
    /\ call_result' = [op |-> "post", res |-> async_post(response, NoLoginDict)]
    /\ pc' = "returned"
    /\ UNCHANGED <<response, parseVars, sensorVars, refreshVars, flowVars>>

CallGetList ==
    /\ pc = "call"
    /\ call_result' = [op |-> "get_list", res |-> async_get_list(response)]
    /\ pc' = "returned"
    /\ UNCHANGED <<response, parseVars, sensorVars, refreshVars, flowVars>>

CallLogin ==
    /\ pc = "call"
    /\ call_result' = [op |-> "login", res |-> async_login(response)]
    /\ pc' = "returned"
    /\ UNCHANGED <<response, parseVars, sensorVars, refreshVars, flowVars>>

NextClient == CallGet \/ CallPost \/ CallGetList \/ CallLogin

SpecClient == InitClient /\ [][NextClient]_vars

(***************************************************************************)
(* The parser on an arbitrary payload                                      *)
(***************************************************************************)
InitParse ==
    /\ pc = "parse"
    /\ (IsBoundedPayload(payload) \/ payload \in FieldPayloads)
    /\ account_data = None
    /\ ClientIdle
    /\ SensorIdle
    /\ FlowIdle
    /\ RefreshIdle

ParseSummary ==
    /\ pc = "parse"
    /\ IF account_summary_raises(payload)
       THEN pc' = "raised" /\ account_data' = None
       ELSE /\ account_data' = Some(parse_account_summary(AccountId, payload))
            /\ pc' = "parsed"
    /\ UNCHANGED <<payload, clientVars, sensorVars, refreshVars, flowVars>>

NextParse == ParseSummary

SpecParse == InitParse /\ [][NextParse]_vars

(***************************************************************************)
(* The refresh cycle: _async_update_data calling async_get_account_summary *)
(* One action per request: it issues the request, takes the exchange the   *)
(* provider answers with, and runs the code up to the next request or to   *)
(* the end of the call.                                                    *)
(***************************************************************************)
MaxCycleTanks == 2    \* tank entries of the account summary of a cycle

BlankOrder ==
    [isDict |-> TRUE, Type |-> JAbsent, SOCompleteDate |-> JAbsent,
     CreatedDate |-> JAbsent, ID |-> JAbsent, ServiceDescription |-> JAbsent]
BlankLine ==
    [isDict |-> TRUE, Product |-> JAbsent, Quantity |-> JAbsent, UOM |-> JAbsent,
     UnitPrice |-> JAbsent, TotalPrice |-> JAbsent]
BlankDetail ==
    [OrderNumber |-> JAbsent, OrderCreatedDate |-> JAbsent, CompleteDate |-> JAbsent,
     OrderStatusDescription |-> JAbsent, OrderStatus |-> JAbsent,
     GrandTotal |-> JAbsent, TotalTax |-> JAbsent, Lines |-> ListVal(<<>>)]

\* exchanges of one endpoint: d is the decoded object, l the decoded array
Failed(k, d) == [net |-> k, status |-> 0, shape |-> "empty", data |-> d, items |-> <<>>]
Answered(st, sh, d, l) ==
    [net |-> "ok", status |-> st, shape |-> sh, data |-> d, items |-> l]
Failures(d) ==
    {Failed("ClientError", d), Failed("Timeout", d),
     Answered(401, "dict", d, <<>>), Answered(500, "dict", d, <<>>),
     Answered(200, "invalid", d, <<>>)}

LoginOf(ok, tok, err) == [success |-> ok, accessToken |-> tok, error |-> err]
CycleLoginExchanges ==
    Failures(NoLoginDict)
    \cup {Answered(200, "dict", d, <<>>) :
            d \in {LoginOf(JBool(FALSE), JAbsent, JStr("bad creds")),
                   LoginOf(JBool(TRUE), JAbsent, JAbsent),
                   LoginOf(JBool(TRUE), JStr("tokA"), JAbsent),
                   LoginOf(JBool(TRUE), JStr("tokB"), JAbsent)}}

CycleTankEntries == {TankWithId(JStr("A")), TankWithId(JAbsent), NonDictTank}
CyclePayloads ==
    {PayloadOf(<<"S1">>, <<Len(flat)>>, flat) :
        flat \in UNION {[1..m -> CycleTankEntries] : m \in 0..MaxCycleTanks}}
CycleSummaryExchanges ==
    Failures(BlankPayload)
    \cup {Answered(403, "dict", BlankPayload, <<>>), Answered(200, "list", BlankPayload, <<>>)}
    \cup {Answered(200, "dict", p, <<>>) : p \in CyclePayloads}

Delivery1 ==
    [BlankOrder EXCEPT !.Type = JStr("D"), !.SOCompleteDate = JStr("2024-01-10"),
                       !.ID = JStr("1001")]
Delivery2 ==
    [BlankOrder EXCEPT !.Type = JStr("D"), !.SOCompleteDate = JStr("2024-03-05"),
                       !.ID = JInt(1002)]
OrderWithoutId == [BlankOrder EXCEPT !.Type = JStr("D")]
\* an entry whose completion date is a number, not a string
OrderWithNumericDate ==
    [BlankOrder EXCEPT !.Type = JStr("D"), !.SOCompleteDate = JInt(20240305),
                       !.ID = JStr("1003")]
CycleOrderLists ==
    {<<>>, <<Delivery1, Delivery2>>, <<OrderWithoutId>>,
     <<Delivery1, OrderWithNumericDate>>}
CycleOrderExchanges ==
    Failures(BlankOrder)
    \cup {Answered(403, "dict", BlankOrder, <<>>)}
    \cup {Answered(200, "list", BlankOrder, l) : l \in CycleOrderLists}

PropaneLine ==
    [BlankLine EXCEPT !.Product = JStr("PROPANE"), !.Quantity = JFloat(1500),
                      !.UnitPrice = JFloat(25), !.TotalPrice = JInt(375)]
CycleDetails ==
    {BlankDetail,
     [BlankDetail EXCEPT !.OrderNumber = JStr("SO-1"), !.GrandTotal = JInt(400),
                         !.Lines = ListVal(<<PropaneLine>>)]}
CycleDetailExchanges ==
    Failures(BlankDetail)
    \cup {Answered(200, "list", BlankDetail, <<>>)}
    \cup {Answered(200, "dict", d, <<>>) : d \in CycleDetails}

\* a request as the log keeps it: the method's name, the path, the
\* Authorization header ("" when none is sent), the tank it is for (0: none),
\* the exchange that answered it and what the client method raised on it
Request(op, url, auth, i, x, exc) ==
    [op |-> op, url |-> url, auth |-> auth, tank |-> i, exchange |-> x, exc |-> exc]
Bearer(token) == "Bearer " \o token

Tanks == account_data[1].tanks

\* Object identity.  account_data is a Python object that the enrichment loop
\* assigns to in place, and the snapshot a refresh returns is that very object,
\* which the host then keeps as coordinator.data.  A newly constructed object
\* is distinct from every object still referenced; of the objects of the
\* model only coordinator.data outlives a refresh, so two identities suffice.
ObjectIds == {1, 2}

new_object_reusing_held(held) == IF held # 0 THEN held ELSE 1

\* FerrellgasAccountData(...) of _parse_account_summary: a new object
new_object(held) == CHOOSE o \in ObjectIds : o # held

\* a field of object obj is assigned
AssignsTo(obj) == data_written' = (data_written \/ (obj # 0 /\ obj = data_obj))

\* the call raises exc out of async_get_account_summary: _async_update_data
\* returns nothing and coordinator.data stays what it was
RefreshRaises(exc) ==
    /\ pc' = "done"
    /\ result' = update_data_raises(exc)
    /\ data_obj' = data_obj

\* the enrichment of tank tank_i is over, with tanks_after the tank list then:
\* the loop goes to the next tank, or the call returns account_data
TankDone(tanks_after) ==
    /\ account_data' = Some([account_data[1] EXCEPT !.tanks = tanks_after])
    /\ latest' = None
    /\ account_obj' = account_obj
    /\ IF tank_i < Len(tanks_after)
       THEN pc' = "orders" /\ tank_i' = tank_i + 1 /\ result' = result
            /\ data_obj' = data_obj
       ELSE /\ pc' = "done"
            /\ tank_i' = tank_i
            /\ result' = ReturnedSnapshot([account_data[1] EXCEPT !.tanks = tanks_after])
            /\ data_obj' = account_obj

InitRefresh ==
    /\ pc = "idle"
    /\ RefreshIdle
    /\ ClientIdle
    /\ ParseIdle
    /\ SensorIdle
    /\ FlowIdle

\* _async_update_data is called (first refresh, or the next scheduled one) and
\* async_get_account_summary logs in
Login ==
    /\ pc \in {"idle", "done"}
    /\ \E x \in CycleLoginExchanges :
         LET res == async_login(x)
         IN  /\ requests' = <<Request("post", "/api/Auth/Login/", "", 0, x, res.exc)>>
             /\ access_token' = res.val
             /\ IF goes_on_after(res)
                THEN pc' = "summary" /\ result' = NoResult /\ data_obj' = data_obj
                ELSE RefreshRaises(res.exc)
    /\ payload' = BlankPayload
    /\ account_data' = None
    /\ account_obj' = 0
    /\ data_written' = data_written
    /\ tank_i' = 0
    /\ latest' = None
    /\ UNCHANGED <<entry, clientVars, sensorVars, flowVars>>

\* the account-summary GET, the parse, and the start of the enrichment loop
FetchSummary ==
    /\ pc = "summary"
    /\ \E x \in CycleSummaryExchanges :
         LET res == async_get(x, BlankPayload)
             account == parse_account_summary(entry.account_id, res.val)
         IN  /\ requests' = Append(requests,
                    Request("get", "/api/AccountSummary/" \o entry.account_id,
                            Bearer(access_token), 0, x, res.exc))
             /\ IF ~goes_on_after(res)
                THEN /\ RefreshRaises(res.exc)
                     /\ UNCHANGED <<payload, account_data, tank_i, account_obj,
                                    data_written>>
                ELSE IF account_summary_raises(res.val)
                THEN /\ RefreshRaises("Other")
                     /\ payload' = res.val
                     /\ UNCHANGED <<account_data, tank_i, account_obj, data_written>>
                ELSE /\ payload' = res.val
                     /\ account_data' = Some(account)
                     /\ account_obj' = new_object(data_obj)
                     /\ AssignsTo(account_obj')
                     /\ IF account.tanks = <<>>
                        THEN /\ pc' = "done"
                             /\ result' = ReturnedSnapshot(account)
                             /\ tank_i' = 0
                             /\ data_obj' = account_obj'
                        ELSE /\ pc' = "orders" /\ tank_i' = 1 /\ result' = result
                             /\ data_obj' = data_obj
    /\ UNCHANGED <<entry, access_token, latest, clientVars, sensorVars, flowVars>>

\* _async_get_last_delivery for tank tank_i, up to its order-detail request
FetchOrders ==
    /\ pc = "orders"
    /\ \E x \in CycleOrderExchanges :
         LET listed == async_get_list(x)
             chosen == choose_order(listed)
         IN  /\ requests' = Append(requests,
                    Request("get_list",
                            "/api/Order/IP/" \o Tanks[tank_i].installed_product_id,
                            Bearer(access_token), tank_i, x, listed.exc))
             /\ IF chosen.exc # "none"
                THEN IF enrichment_swallows(chosen.exc)
                     THEN TankDone(Tanks) /\ data_written' = data_written
                     ELSE /\ RefreshRaises(chosen.exc)
                          /\ UNCHANGED <<account_data, tank_i, latest, account_obj,
                                         data_written>>
                ELSE IF chosen.val = None
                THEN /\ TankDone([Tanks EXCEPT ![tank_i].last_delivery = None])
                     /\ AssignsTo(account_obj)
                ELSE /\ pc' = "detail"
                     /\ latest' = chosen.val
                     /\ UNCHANGED <<account_data, tank_i, result, hostVars>>
    /\ UNCHANGED <<entry, access_token, payload, clientVars, sensorVars, flowVars>>

\* the rest of _async_get_last_delivery for tank tank_i: the order-detail GET
FetchDetail ==
    /\ pc = "detail"
    /\ \E x \in CycleDetailExchanges :
         LET fetched == async_get(x, BlankDetail)
             delivery == delivery_of(fetched, latest[1])
         IN  /\ requests' = Append(requests,
                    Request("get", "/api/Order/" \o PyStr(GetIdOrEmpty(latest[1])),
                            Bearer(access_token), tank_i, x, fetched.exc))
             /\ IF delivery.exc # "none"
                THEN IF enrichment_swallows(delivery.exc)
                     THEN TankDone(Tanks) /\ data_written' = data_written
                     ELSE /\ RefreshRaises(delivery.exc)
                          /\ UNCHANGED <<account_data, tank_i, latest, account_obj,
                                         data_written>>
                ELSE /\ TankDone([Tanks EXCEPT ![tank_i].last_delivery = delivery.val])
                     /\ AssignsTo(account_obj)
    /\ UNCHANGED <<entry, access_token, payload, clientVars, sensorVars, flowVars>>

Next == Login \/ FetchSummary \/ FetchOrders \/ FetchDetail

Spec == InitRefresh /\ [][Next]_vars

(***************************************************************************)
(* _async_get_last_delivery of tank "A" on an arbitrary order list         *)
(***************************************************************************)
MaxOrders == 3    \* entries of one order list

\* an object entry by its type code, its two dates and its identifier
OrderOf(type, completed, created, id) ==
    [BlankOrder EXCEPT !.Type = type, !.SOCompleteDate = completed,
                       !.CreatedDate = created, !.ID = id]
NonDictOrder == [BlankOrder EXCEPT !.isDict = FALSE]
TypeValues == {JStr("D"), JStr("S"), JAbsent}
OrderEntries ==
    {NonDictOrder, OrderWithNumericDate}
    \cup {OrderOf(ty, JStr("2024-01-10"), JAbsent, JStr("1001")) : ty \in TypeValues}
    \cup {OrderOf(ty, JAbsent, JStr("2024-03-05"), JStr("1002")) : ty \in TypeValues}
    \cup {OrderOf(ty, JStr(""), JStr("9/1/2023"), JStr("1003")) : ty \in TypeValues}
    \cup {OrderOf(ty, JAbsent, JAbsent, JStr("1004")) : ty \in TypeValues}
    \cup {OrderOf(JStr("D"), JStr("2024-03-05"), JStr("2024-01-10"), id) :
             id \in {JAbsent, JNull, JStr(""), JInt(1005)}}
OrderLists == UNION {[1..n -> OrderEntries] : n \in 0..MaxOrders}
DeliveryExchanges ==
    Failures(BlankOrder)
    \cup {Answered(200, "scalar", BlankOrder, <<>>)}
    \cup {Answered(200, "dict", o, <<>>) : o \in OrderEntries \ {NonDictOrder}}
    \cup {Answered(200, "list", BlankOrder, l) : l \in OrderLists}

InitDelivery ==
    /\ pc = "delivery"
    /\ response \in DeliveryExchanges
    /\ call_result = NoCall
    /\ ParseIdle
    /\ SensorIdle
    /\ FlowIdle
    /\ RefreshIdle

\* _async_get_last_delivery up to its order-detail request
ListOrders ==
    /\ pc = "delivery"
    /\ LET listed == async_get_list(response)
           chosen == choose_order(listed)
       IN  /\ requests' = <<Request("get_list", "/api/Order/IP/A", Bearer("tokA"), 1,
                                    response, listed.exc)>>
           /\ IF chosen.exc = "none" /\ chosen.val # None
              THEN pc' = "detail" /\ latest' = chosen.val /\ call_result' = call_result
              ELSE /\ pc' = "returned"
                   /\ latest' = None
                   /\ call_result' = [op |-> "get_last_delivery", res |-> chosen]
    /\ UNCHANGED <<response, entry, access_token, tank_i, result, hostVars,
                   parseVars, sensorVars, flowVars>>

\* the order-detail request of _async_get_last_delivery and its return
GetDetail ==
    /\ pc = "detail"
    /\ \E x \in CycleDetailExchanges :
         /\ requests' = Append(requests,
                Request("get", "/api/Order/" \o PyStr(GetIdOrEmpty(latest[1])),
                        Bearer("tokA"), 1, x, async_get(x, BlankDetail).exc))
         /\ call_result' = [op |-> "get_last_delivery",
                            res |-> delivery_of(async_get(x, BlankDetail), latest[1])]
    /\ pc' = "returned"
    /\ UNCHANGED <<response, latest, entry, access_token, tank_i, result, hostVars,
                   parseVars, sensorVars, flowVars>>

NextDelivery == ListOrders \/ GetDetail

SpecDelivery == InitDelivery /\ [][NextDelivery]_vars

(***************************************************************************)
(* _parse_order_detail on an arbitrary order detail                        *)
(***************************************************************************)
MaxLines == 3    \* entries of the Lines array of one order detail

LineOf(product, quantity, unit_price, total_price) ==
    [BlankLine EXCEPT !.Product = product, !.Quantity = quantity,
                      !.UnitPrice = unit_price, !.TotalPrice = total_price]
NonDictLine == [BlankLine EXCEPT !.isDict = FALSE]
LineEntries ==
    {NonDictLine,
     LineOf(JStr("PROPANE"), JFloat(1500), JFloat(25), JInt(375)),
     LineOf(JStr("PROPANE"), JAbsent, JStr("2.5"), JNull),
     LineOf(JStr("FUEL_SURCHARGE"), JInt(1), JFloat(99), JFloat(99)),
     LineOf(JStr("HAZMAT_FEE"), JAbsent, JAbsent, JInt(12)),
     LineOf(JStr("TAX"), JInt(1), JFloat(215), JFloat(215)),
     LineOf(JStr("propane"), JFloat(1500), JFloat(25), JInt(375)),
     LineOf(JAbsent, JInt(1), JInt(5), JInt(5)),
     LineOf(JInt(5), JInt(1), JInt(5), JInt(5))}
LinesValues ==
    {NotAList} \cup {ListVal(l) : l \in UNION {[1..n -> LineEntries] : n \in 0..MaxLines}}
\* GrandTotal and TotalTax
TotalValues ==
    {<<JAbsent, JAbsent>>, <<JNull, JFloat(215)>>, <<JStr("12.50"), JArray>>,
     <<JInt(400), JStr("")>>, <<JFloat(3755), JInt(0)>>}
OrderDetails ==
    {[BlankDetail EXCEPT !.GrandTotal = t[1], !.TotalTax = t[2],
                         !.OrderCreatedDate = d, !.Lines = l] :
        t \in TotalValues,
        d \in {JStr("2024-05-01"), JStr("2024-02-30T10:00:00")}, l \in LinesValues}

InitDetail ==
    /\ pc = "detail_parse"
    /\ response \in {Answered(200, "dict", d, <<>>) : d \in OrderDetails}
    /\ call_result = NoCall
    /\ ParseIdle
    /\ SensorIdle
    /\ FlowIdle
    /\ RefreshIdle

\* _parse_order_detail(detail, summary) on the decoded detail
ParseDetail ==
    /\ pc = "detail_parse"
    /\ \E summary \in {BlankOrder, Delivery1} :
         call_result' =
            [op |-> "parse_order_detail",
             res |-> IF order_detail_raises(response.data, summary)
                     THEN Raised("Other", "ValueError", BlankOrderDetail)
                     ELSE Returned(parse_order_detail(response.data, summary))]
    /\ pc' = "detail_parsed"
    /\ UNCHANGED <<response, parseVars, sensorVars, refreshVars, flowVars>>

NextDetail == ParseDetail

SpecDetail == InitDetail /\ [][NextDetail]_vars

\* native_value of FerrellgasTankSensor when _find_tank returns None, by key
AbsentValues == [key \in DOMAIN value_fn(BlankTankData) |-> None]

tank_sensor_native_value_of_first_tank(tanks, id) ==
    IF Len(tanks) = 0 THEN AbsentValues ELSE value_fn(tanks[1])

\* FerrellgasTankSensor.native_value, by key of the description
tank_sensor_native_value(tanks, id) ==
    LET tank == find_tank(tanks, id)
    IN  IF tank = None THEN AbsentValues ELSE value_fn(tank[1])

\* FerrellgasTankEntity.available; CoordinatorEntity.available is the
\* coordinator's last_update_success
tank_entity_available(success, tanks, id) ==
    success /\ find_tank(tanks, id) # None

(***************************************************************************)
(* The tank sensors read on an arbitrary tank                              *)
(***************************************************************************)
PctValues == {None, Some(0), Some(400), Some(333), Some(1000), Some(1200), Some(-50)}
FullValues == {None, Some(5000), Some(1010), Some(0)}
FillValues == {None, Some(4500), Some(1000), Some(2000), Some(0)}
DeliveryValues ==
    {None, Some(BlankOrderDetail)}
    \cup {Some([BlankOrderDetail EXCEPT !.propane_price_per_gallon = Some(c)]) :
             c \in {0, 25, 31}}
SensorTanks ==
    {[BlankTankData EXCEPT !.est_curr_pct = p, !.full_capacity = f,
                           !.fill_capacity = g, !.last_delivery = d] :
        p \in PctValues, f \in FullValues, g \in FillValues, d \in DeliveryValues}

InitSensor ==
    /\ pc = "read"
    /\ sensor_tank \in SensorTanks
    /\ native_value = value_fn(BlankTankData)
    /\ options = None
    /\ entity_tank_id = ""
    /\ is_on = None
    /\ EntityIdle
    /\ FlowIdle
    /\ ClientIdle
    /\ ParseIdle
    /\ RefreshIdle

ReadSensors ==
    /\ pc = "read"
    /\ native_value' = value_fn(sensor_tank)
    /\ pc' = "shown"
    /\ UNCHANGED <<sensor_tank, options, entity_tank_id, is_on,
                   last_update_success, refreshes, available,
                   clientVars, parseVars, refreshVars, flowVars>>

NextSensor == ReadSensors

SpecSensor == InitSensor /\ [][NextSensor]_vars

(***************************************************************************)
(* The low-propane flag read on an arbitrary snapshot                      *)
(***************************************************************************)
MaxFlagTanks == 2    \* tanks of the snapshot the flag is read on

FlagPctValues == {None, Some(0), Some(199), Some(200), Some(400), Some(1000)}
FlagTanks ==
    {[BlankTankData EXCEPT !.installed_product_id = id, !.est_curr_pct = p] :
        id \in {"A", "B"}, p \in FlagPctValues}
ThresholdOptions == {None, Some(1), Some(20), Some(40), Some(100)}
FlagSnapshots ==
    {[account_id |-> AccountId, account_name |-> AccountId, balance |-> None,
      tanks |-> tanks] :
        tanks \in UNION {[1..n -> FlagTanks] : n \in 0..MaxFlagTanks}}

InitFlag ==
    /\ pc = "flag"
    /\ payload = BlankPayload
    /\ account_data \in {Some(snapshot) : snapshot \in FlagSnapshots}
    /\ sensor_tank = BlankTankData
    /\ native_value = value_fn(BlankTankData)
    /\ options \in ThresholdOptions
    /\ entity_tank_id \in {"A", "B"}
    /\ is_on = None
    /\ EntityIdle
    /\ FlowIdle
    /\ ClientIdle
    /\ RefreshIdle

\* the host reads is_on of the entity; account_data is coordinator.data
ReadLowPropane ==
    /\ pc = "flag"
    /\ is_on' = low_propane_is_on(account_data[1].tanks, entity_tank_id, options)
    /\ pc' = "flag_read"
    /\ UNCHANGED <<sensor_tank, native_value, options, entity_tank_id,
                   last_update_success, refreshes, available,
                   clientVars, parseVars, refreshVars, flowVars>>

NextFlag == ReadLowPropane

SpecFlag == InitFlag /\ [][NextFlag]_vars

(***************************************************************************)
(* A tank entity read between refresh cycles                               *)
(***************************************************************************)
MaxRefreshes == 2     \* refresh cycles after the platform setup
MaxEntityTanks == 2   \* tanks of a snapshot

EntityIds == {"A", "B"}
EntityPctValues == {None, Some(400), Some(1000)}
EntityTanks ==
    {[BlankTankData EXCEPT !.installed_product_id = id, !.est_curr_pct = p,
                           !.full_capacity = Some(5000)] :
        id \in EntityIds, p \in EntityPctValues}
EntitySnapshots ==
    {[account_id |-> AccountId, account_name |-> AccountId, balance |-> None,
      tanks |-> tanks] :
        tanks \in UNION {[1..n -> EntityTanks] : n \in 0..MaxEntityTanks}}

\* async_setup_entry of sensor.py after the first refresh returned a snapshot:
\* one entity per tank of coordinator.data, keeping the tank's id only
InitEntity ==
    /\ pc = "entity_added"
    /\ payload = BlankPayload
    /\ account_data \in {Some(snapshot) : snapshot \in EntitySnapshots}
    /\ \E k \in 1..Len(account_data[1].tanks) :
          entity_tank_id = account_data[1].tanks[k].installed_product_id
    /\ sensor_tank = BlankTankData
    /\ native_value = value_fn(BlankTankData)
    /\ options = None
    /\ is_on = None
    /\ EntityIdle
    /\ FlowIdle
    /\ ClientIdle
    /\ RefreshIdle

\* a refresh cycle returned a snapshot: the host makes it coordinator.data
RefreshReturned ==
    /\ refreshes < MaxRefreshes
    /\ \E snapshot \in EntitySnapshots : account_data' = Some(snapshot)
    /\ last_update_success' = TRUE
    /\ refreshes' = refreshes + 1
    /\ pc' = "entity_refreshed"
    /\ UNCHANGED <<payload, sensor_tank, native_value, options, entity_tank_id, is_on,
                   available, clientVars, refreshVars, flowVars>>

\* a refresh cycle raised UpdateFailed: coordinator.data stays what it was
RefreshFailed ==
    /\ refreshes < MaxRefreshes
    /\ last_update_success' = FALSE
    /\ refreshes' = refreshes + 1
    /\ pc' = "entity_refreshed"
    /\ UNCHANGED <<parseVars, sensor_tank, native_value, options, entity_tank_id, is_on,
                   available, clientVars, refreshVars, flowVars>>

\* the host reads available and native_value of the entity
ReadEntity ==
    /\ pc \in {"entity_added", "entity_refreshed"}
    /\ available' = tank_entity_available(last_update_success, account_data[1].tanks,
                                          entity_tank_id)
    /\ native_value' = tank_sensor_native_value(account_data[1].tanks, entity_tank_id)
    /\ pc' = "entity_read"
    /\ UNCHANGED <<parseVars, sensor_tank, options, entity_tank_id, is_on,
                   last_update_success, refreshes, clientVars, refreshVars, flowVars>>

NextEntity == RefreshReturned \/ RefreshFailed \/ ReadEntity

SpecEntity == InitEntity /\ [][NextEntity]_vars

(***************************************************************************)
(* The setup wizard (config flow).                                         *)
(* A FlowResult is [type, step_id, error, reason, data]: type is "form"    *)
(* (step_id the form shown, error its errors["base"] or ""), "abort" (with *)
(* its reason), "create_entry" (data the entry's data) or "raised" (the    *)
(* step let an exception out).                                             *)
(***************************************************************************)
MaxAccounts == 2    \* account ids in a user/me answer

\* a user/me object without the Accounts key, read as its default []
BlankUserMe == [Accounts |-> ListVal(<<>>)]

Elements(items) == {items[k] : k \in 1..Len(items)}

\* FerrellgasApiClient.async_get_accounts; login_x and me_x are the exchanges
\* of the login POST and of the user/me GET
async_get_accounts(login_x, me_x) ==
    LET token == async_login(login_x)
        user_me == async_get(me_x, BlankUserMe)
    IN  IF token.exc # "none" THEN Raised(token.exc, token.msg, <<>>)
        ELSE IF user_me.exc # "none" THEN Raised(user_me.exc, user_me.msg, <<>>)
        ELSE IF ~user_me.val.Accounts.isList
        THEN Raised("Api", "Unexpected response type for Accounts", <<>>)
        ELSE Returned([k \in 1..Len(user_me.val.Accounts.items) |->
                          PyStr(user_me.val.Accounts.items[k])])

ShowForm(step, error) ==
    [type |-> "form", step_id |-> step, error |-> error, reason |-> "", data |-> None]
Abort(reason) ==
    [type |-> "abort", step_id |-> "", error |-> "", reason |-> reason, data |-> None]
StepRaised ==
    [type |-> "raised", step_id |-> "", error |-> "", reason |-> "", data |-> None]

\* _async_create_entry; configured: the unique ids of the entries that exist
async_create_entry(credentials, account_id, configured) ==
    IF account_id \in configured THEN Abort("already_configured")
    ELSE [type |-> "create_entry", step_id |-> "", error |-> "", reason |-> "",
          data |-> Some([username |-> credentials.username,
                         password |-> credentials.password,
                         account_id |-> account_id])]

async_step_account_any_id(held_input, accounts, user_input, configured) ==
    IF held_input = None THEN Abort("unknown")
    ELSE IF user_input # None
    THEN async_create_entry(held_input[1], user_input[1], configured)
    ELSE ShowForm("account", "")

\* async_step_account; held_input is self._user_input, accounts self._accounts
async_step_account(held_input, accounts, user_input, configured) ==
    IF held_input = None THEN Abort("unknown")
    ELSE IF user_input # None
    THEN IF user_input[1] \notin Elements(accounts)
         THEN ShowForm("account", "invalid_account")
         ELSE async_create_entry(held_input[1], user_input[1], configured)
    ELSE ShowForm("account", "")

\* async_step_user on a submission; fetched is how
\* _async_validate_and_fetch_accounts ended
async_step_user(user_input, fetched, configured) ==
    CASE fetched.exc = "Auth" -> ShowForm("user", "invalid_auth")
      [] fetched.exc = "Conn" -> ShowForm("user", "cannot_connect")
      [] fetched.exc = "Api" -> ShowForm("user", "unknown")
      [] fetched.exc = "Other" -> StepRaised
      [] OTHER ->
            IF Len(fetched.val) = 0 THEN ShowForm("user", "no_accounts")
            ELSE IF Len(fetched.val) = 1
            THEN async_create_entry(user_input, fetched.val[1], configured)
            ELSE async_step_account(Some(user_input), fetched.val, None, configured)

Credentials ==
    {[username |-> "user", password |-> "secret"],
     [username |-> "other", password |-> "hunter2"]}
AccountValues == {JInt(101), JStr("A2")}
AccountChoices == {"101", "A2", "Z9"}
UserMes ==
    {[Accounts |-> NotAList]}
    \cup {[Accounts |-> ListVal(items)] :
             items \in UNION {[1..n -> AccountValues] : n \in 0..MaxAccounts}}
FlowLoginExchanges ==
    Failures(NoLoginDict)
    \cup {Answered(200, "dict", d, <<>>) :
            d \in {LoginOf(JBool(FALSE), JAbsent, JStr("bad creds")),
                   LoginOf(JBool(TRUE), JStr("tokA"), JAbsent)}}
UserMeExchanges ==
    Failures(BlankUserMe)
    \cup {Answered(200, "list", BlankUserMe, <<>>)}
    \cup {Answered(200, "dict", me, <<>>) : me \in UserMes}
ConfiguredIds == {{}, {"A2"}}

\* FerrellgasConfigFlow.__init__
InitFlow ==
    /\ pc = "flow_init"
    /\ FlowIdle
    /\ ClientIdle
    /\ ParseIdle
    /\ SensorIdle
    /\ RefreshIdle

\* the host ends a flow whose step returned an entry or an abort
FlowOpen == flow_result.type \notin {"create_entry", "abort"}

\* async_step_user without input: the form of the user step
ShowUserForm ==
    /\ FlowOpen
    /\ flow_result' = ShowForm("user", "")
    /\ call_result' = NoCall
    /\ pc' = "step_user"
    /\ UNCHANGED <<response, flow_user_input, flow_accounts, flow_fetched,
                   parseVars, sensorVars, refreshVars>>

\* async_step_user with the credentials of the form
SubmitCredentials ==
    /\ FlowOpen
    /\ \E user_input \in Credentials, login_x \in FlowLoginExchanges,
          me_x \in UserMeExchanges, configured \in ConfiguredIds :
         LET fetched == async_get_accounts(login_x, me_x)
         IN  /\ flow_user_input' = Some(user_input)
             /\ call_result' = [op |-> "get_accounts", res |-> fetched]
             /\ flow_accounts' = IF fetched.exc = "none" /\ Len(fetched.val) > 1
                                 THEN fetched.val ELSE flow_accounts
             /\ flow_fetched' = IF fetched.exc = "none"
                                THEN flow_fetched \cup Elements(fetched.val)
                                ELSE flow_fetched
             /\ flow_result' = async_step_user(user_input, fetched, configured)
    /\ pc' = "step_user"
    /\ UNCHANGED <<response, parseVars, sensorVars, refreshVars>>

\* async_step_account, without input or with the account chosen in its form
StepAccount ==
    /\ FlowOpen
    /\ \E user_input \in {None} \cup {Some(id) : id \in AccountChoices},
          configured \in ConfiguredIds :
         flow_result' = async_step_account(flow_user_input, flow_accounts, user_input,
                                           configured)
    /\ call_result' = NoCall
    /\ pc' = "step_account"
    /\ UNCHANGED <<response, flow_user_input, flow_accounts, flow_fetched,
                   parseVars, sensorVars, refreshVars>>

NextFlow == ShowUserForm \/ SubmitCredentials \/ StepAccount

SpecFlow == InitFlow /\ [][NextFlow]_vars

(***************************************************************************)
(* Claims about the low-propane flag (SpecFlag)                            *)
(***************************************************************************)
FlagRead == pc = "flag_read"
SnapshotTanks == account_data[1].tanks
InSnapshot == \E k \in 1..Len(SnapshotTanks) : SnapshotTanks[k].installed_product_id = entity_tank_id
\* the entity's tank: the first of the snapshot with its id
EntityTank ==
    SnapshotTanks[CHOOSE k \in 1..Len(SnapshotTanks) :
        /\ SnapshotTanks[k].installed_product_id = entity_tank_id
        /\ \A m \in 1..(k - 1) : SnapshotTanks[m].installed_product_id # entity_tank_id]
\* the configured threshold in tenths of a percent, 20 % when none is set
ThresholdTenths == IF options = None THEN 200 ELSE 10 * options[1]

\* C11: the low-propane flag is absent exactly when the entity's tank is not
\* in the snapshot or its est_curr_pct is absent; otherwise it is true exactly
\* when est_curr_pct is strictly below the configured threshold (20 when the
\* option is not set), so a percentage equal to the threshold gives false.
C11_LowPropaneFlag ==
    FlagRead =>
        /\ (is_on = None) <=> (~InSnapshot \/ EntityTank.est_curr_pct = None)
        /\ is_on # None => (is_on[1] <=> EntityTank.est_curr_pct[1] < ThresholdTenths)

\* 20.0 % with the default threshold: not low
C11_Witness ==
    /\ FlagRead
    /\ options = None
    /\ InSnapshot
    /\ EntityTank.est_curr_pct = Some(200)
    /\ is_on = Some(FALSE)

(***************************************************************************)
(* Claims about the refresh cycle (Spec)                                   *)
(***************************************************************************)
Done == pc = "done"
NReq == Len(requests)
HasRequest(op, j) == \E i \in 1..NReq : requests[i].op = op /\ requests[i].tank = j
RequestOf(op, j) ==
    requests[CHOOSE i \in 1..NReq : requests[i].op = op /\ requests[i].tank = j]
SummaryFetched == NReq >= 2 /\ requests[2].exc = "none"
ApiErrorClasses == {"Api", "Auth", "Conn"}

\* a request of tank j raised FerrellgasApiError or a subclass of it
TankRequestFailed(j) ==
    \/ HasRequest("get_list", j) /\ RequestOf("get_list", j).exc \in ApiErrorClasses
    \/ HasRequest("get", j) /\ RequestOf("get", j).exc \in ApiErrorClasses

\* the delivery that tank j's own exchanges yield
OwnDelivery(j) ==
    IF TankRequestFailed(j) \/ ~HasRequest("get", j) THEN None
    ELSE Some(parse_order_detail(
                RequestOf("get", j).exchange.data,
                choose_order(async_get_list(RequestOf("get_list", j).exchange)).val[1]))

ParsedOfPayload == parse_account_summary(entry.account_id, payload).tanks

\* something outside the FerrellgasApiError hierarchy was raised: by a request
\* (a timeout, a body that is not JSON) or by the sort of the order list
RaisedOutsideHierarchy ==
    \/ \E i \in 1..NReq : requests[i].exc = "Other"
    \/ \E i \in 1..NReq :
          /\ requests[i].op = "get_list"
          /\ choose_order(async_get_list(requests[i].exchange)).exc = "Other"

\* C1: when a tank's order-list or order-detail request raises
\* FerrellgasApiError or a subclass, the call still returns a snapshot that
\* holds every parsed tank, that tank with last_delivery absent, and every
\* other tank's last_delivery is what its own exchanges yield.
C1_EnrichmentIsolated ==
    /\ (Done /\ SummaryFetched /\ ~RaisedOutsideHierarchy) => result.kind = "snapshot"
    /\ result.kind = "snapshot" =>
          /\ Len(result.data[1].tanks) = Len(ParsedOfPayload)
          /\ \A j \in 1..Len(ParsedOfPayload) :
                result.data[1].tanks[j] =
                    [ParsedOfPayload[j] EXCEPT !.last_delivery = OwnDelivery(j)]

\* tank 1's order list is refused, tank 2 still gets its delivery
C1_Witness ==
    /\ result.kind = "snapshot"
    /\ Len(result.data[1].tanks) = 2
    /\ TankRequestFailed(1)
    /\ result.data[1].tanks[1].last_delivery = None
    /\ result.data[1].tanks[2].last_delivery # None

\* C2: a refresh in which some request was answered 401 or 403 ends with
\* ConfigEntryAuthFailed and returns no snapshot.
C2_AuthStatusSurfaces ==
    (Done /\ \E i \in 1..NReq :
                /\ requests[i].exchange.net = "ok"
                /\ requests[i].exchange.status \in {401, 403})
        => (result.kind = "ConfigEntryAuthFailed" /\ result.data = None)

\* C3: a refresh whose login or account-summary request fails with a
\* FerrellgasConnectionError or a plain FerrellgasApiError ends with
\* UpdateFailed, and the stored username, password and account id stay as
\* they were.
C3_TransientFailure ==
    /\ entry = [username |-> "user", password |-> "secret", account_id |-> "ACC1"]
    /\ (Done /\ NReq <= 2 /\ requests[NReq].exc \in {"Conn", "Api"})
          => result.kind = "UpdateFailed"

C3_Witness ==
    /\ Done
    /\ NReq = 2
    /\ requests[2].exchange.net = "ClientError"
    /\ requests[2].exc = "Conn"
    /\ result.kind = "UpdateFailed"

\* the token the login of this cycle returned
CycleToken == requests[1].exchange.data.accessToken.s

\* C6: in a cycle the login POST is the first request and the only one; the
\* account-summary GET follows only a login that returned a token, and every
\* later request carries that token; order-list GETs come only after the summary
\* was fetched and parsed, one per tank in tank order, each followed by at most
\* one order-detail GET for the same tank; nothing is requested after a failed
\* login or a failed account-summary fetch, and nothing is requested twice.
C6_RequestOrder ==
    /\ pc = "idle" => NReq = 0
    /\ NReq >= 1 =>
          /\ requests[1].op = "post"
          /\ requests[1].url = "/api/Auth/Login/"
          /\ \A i \in 2..NReq : requests[i].op # "post"
    /\ NReq >= 2 =>
          /\ requests[1].exc = "none"
          /\ requests[1].exchange.data.accessToken.t = "str" /\ CycleToken # ""
          /\ requests[2].op = "get"
          /\ requests[2].url = "/api/AccountSummary/ACC1"
          /\ requests[2].tank = 0
          /\ \A i \in 2..NReq : requests[i].auth = "Bearer " \o CycleToken
    /\ NReq >= 3 =>
          /\ requests[2].exc = "none"
          /\ account_data # None
    /\ \A i \in 3..NReq :
          /\ requests[i].tank \in 1..Len(ParsedOfPayload)
          /\ requests[i].op = "get_list" =>
                /\ requests[i].tank = IF i = 3 THEN 1 ELSE requests[i - 1].tank + 1
                /\ requests[i].url =
                      "/api/Order/IP/"
                         \o ParsedOfPayload[requests[i].tank].installed_product_id
          /\ requests[i].op = "get" =>
                /\ requests[i - 1].op = "get_list"
                /\ requests[i - 1].tank = requests[i].tank
                /\ requests[i - 1].exc = "none"

\* a full cycle over two tanks: login, summary, and list and detail of each
C6_Witness ==
    /\ Done
    /\ NReq = 6
    /\ requests[3].op = "get_list" /\ requests[4].op = "get"
    /\ requests[5].op = "get_list" /\ requests[6].op = "get"
    /\ requests[6].tank = 2

\* a request of tank j failed in any way: the client method raised
TankEnrichmentFailed(j) ==
    \/ \E i \in 1..NReq : requests[i].tank = j /\ requests[i].exc # "none"
    \/ /\ HasRequest("get_list", j)
       /\ choose_order(async_get_list(RequestOf("get_list", j).exchange)).exc # "none"

\* C12: whatever way one tank's enrichment fails in (a timeout, a body that is
\* not JSON, order entries with fields of unexpected types, an HTTP error
\* status), the call returns a snapshot that holds every parsed tank, the
\* failing tank with last_delivery absent, and every tank was enriched.
C12_AnyEnrichmentFailureIsolated ==
    (Done /\ SummaryFetched) =>
        /\ result.kind = "snapshot"
        /\ Len(result.data[1].tanks) = Len(ParsedOfPayload)
        /\ \A j \in 1..Len(ParsedOfPayload) :
              /\ HasRequest("get_list", j)
              /\ TankEnrichmentFailed(j) => result.data[1].tanks[j].last_delivery = None

\* C15: the object the host holds as coordinator.data is never assigned to
\* after it was returned; while a refresh is building and enriching its
\* account_data, that object is not the one the host holds; a refresh that
\* returns hands over a new object, complete (every tank went through the
\* enrichment loop), and a refresh that raises returns no snapshot and leaves
\* the host's object in place.
C15_SnapshotReplacedWholesale ==
    /\ [](/\ ~data_written
          /\ pc \in {"orders", "detail"} => (account_obj # 0 /\ account_obj # data_obj)
          /\ (Done /\ result.kind = "snapshot") =>
                /\ data_obj = account_obj
                /\ result.data = account_data
                /\ tank_i = Len(Tanks)
          /\ result.kind # "snapshot" => result.data = None)
    /\ [][pc' = "done" =>
            IF result'.kind = "snapshot"
            THEN data_obj' # data_obj /\ data_obj' = account_obj'
            ELSE data_obj' = data_obj]_vars

\* a second refresh returned: the host holds the second object, enriched
C15_Witness ==
    /\ Done
    /\ result.kind = "snapshot"
    /\ data_obj = 2
    /\ Len(Tanks) = 2
    /\ Tanks[2].last_delivery # None

(***************************************************************************)
(* Claims about the client's calls (SpecClient)                            *)
(***************************************************************************)
LoginCalled == pc = "returned" /\ call_result.op = "login"
HasLoginResponse ==
    /\ response.net = "ok"
    /\ response.status < 400
    /\ response.shape = "dict"
SuccessFlagTruthy == response.data.success \in {JBool(TRUE), JInt(1), JStr("yes")}
TokenIsNonEmptyString ==
    response.data.accessToken.t = "str" /\ response.data.accessToken.s # ""
ErrorTextOrDefault ==
    IF response.data.error = JStr("bad creds") THEN "bad creds" ELSE "Login failed"

\* C4: _async_login returns a token exactly when the login response has a
\* truthy success flag and a non-empty string accessToken, and then returns
\* that token; a falsy flag raises FerrellgasAuthenticationError with the
\* response's error text, or "Login failed" when it has none; a truthy flag
\* with a missing, empty or non-string token raises it too.
C4_LoginContract ==
    LoginCalled =>
        /\ (call_result.res.exc = "none") <=>
                (HasLoginResponse /\ SuccessFlagTruthy /\ TokenIsNonEmptyString)
        /\ call_result.res.exc = "none" =>
                call_result.res.val = response.data.accessToken.s
        /\ (HasLoginResponse /\ ~SuccessFlagTruthy) =>
                /\ call_result.res.exc = "Auth"
                /\ call_result.res.msg = ErrorTextOrDefault
        /\ (HasLoginResponse /\ SuccessFlagTruthy /\ ~TokenIsNonEmptyString) =>
                call_result.res.exc = "Auth"

C4_Witness ==
    /\ LoginCalled
    /\ HasLoginResponse
    /\ response.data.success = JInt(1)
    /\ response.data.accessToken = JInt(5)
    /\ call_result.res.exc = "Auth"

TransportCalled == pc = "returned" /\ call_result.op \in {"get", "get_list", "post"}

\* C5: for _async_get, _async_get_list and _async_post, a response with status
\* 401 or 403 raises FerrellgasAuthenticationError, never a plain
\* FerrellgasApiError, and any other status >= 400 raises a plain
\* FerrellgasApiError.
C5_StatusClassification ==
    (TransportCalled /\ response.net = "ok") =>
        /\ response.status \in {401, 403} => call_result.res.exc = "Auth"
        /\ (response.status >= 400 /\ response.status \notin {401, 403}) =>
                call_result.res.exc = "Api"

C5_Witness ==
    /\ pc = "returned"
    /\ call_result.op = "get"
    /\ response.net = "ok"
    /\ response.status = 403
    /\ call_result.res.exc = "Auth"

\* C13: for _async_get and _async_post, a response with status below 400 whose
\* body is not JSON, or is JSON but not an object, raises FerrellgasApiError,
\* the plain class and nothing else; a value is returned only when the body
\* is a JSON object.
C13_NonObjectBodyIsApiError ==
    (pc = "returned" /\ call_result.op \in {"get", "post"}
        /\ response.net = "ok" /\ response.status < 400) =>
        /\ response.shape # "dict" => call_result.res.exc = "Api"
        /\ call_result.res.exc = "none" => response.shape = "dict"

(***************************************************************************)
(* Claims about _async_get_last_delivery (SpecDelivery)                    *)
(***************************************************************************)
\* the decoded order list, its object entries, and the order whose detail is
\* fetched (latest is set when the order-detail request is about to be issued)
OrdersRaw == async_get_list(response).val
ObjectOrders == {OrdersRaw[i] : i \in {k \in 1..Len(OrdersRaw) : OrdersRaw[k].isDict}}
TypedD == {o \in ObjectOrders : o.Type = JStr("D")}
Candidates == IF TypedD # {} THEN TypedD ELSE ObjectOrders
DetailFetched == pc \in {"detail", "returned"} /\ latest # None

\* C16: when an object entry of the order list has Type "D", the order whose
\* detail is fetched has Type "D", also when an entry of another type has a
\* later date; with no entry of Type "D" it is one of the object entries.
C16_DeliveriesFirst ==
    DetailFetched =>
        /\ latest[1] \in ObjectOrders
        /\ TypedD # {} => latest[1].Type = JStr("D")

\* a service order dated after the only delivery: the delivery is fetched
C16_Witness ==
    /\ DetailFetched
    /\ OrdersRaw = <<OrderOf(JStr("S"), JAbsent, JStr("2024-03-05"), JStr("1002")),
                     OrderOf(JStr("D"), JStr("2024-01-10"), JAbsent, JStr("1001"))>>
    /\ latest[1].ID = JStr("1001")

\* a candidate's key: its SOCompleteDate when present and non-empty, otherwise
\* its CreatedDate, otherwise the empty string
DateKey(o) ==
    IF o.SOCompleteDate.t = "str" /\ o.SOCompleteDate.s # "" THEN o.SOCompleteDate.s
    ELSE IF o.CreatedDate.t = "str" /\ o.CreatedDate.s # "" THEN o.CreatedDate.s
    ELSE ""
HasStringDates(o) ==
    o.SOCompleteDate.t \in {"str", "absent"} /\ o.CreatedDate.t \in {"str", "absent"}
\* a <= b, character by character
LexLeq(a, b) ==
    \E i, j \in 1..Len(KeyStrings) : KeyStrings[i] = a /\ KeyStrings[j] = b /\ i <= j

\* C17: the order whose detail is fetched is a candidate whose key is greatest
\* among the candidates' keys in the lexicographic order of the raw strings.
C17_LatestByStringKey ==
    (DetailFetched /\ \A c \in Candidates : HasStringDates(c)) =>
        /\ latest[1] \in Candidates
        /\ \A c \in Candidates : LexLeq(DateKey(c), DateKey(latest[1]))

\* "9/1/2023" sorts after "2024-03-05" as a string, though it is the earlier date
C17_Witness ==
    /\ DetailFetched
    /\ OrdersRaw = <<OrderOf(JStr("D"), JAbsent, JStr("2024-03-05"), JStr("1002")),
                     OrderOf(JStr("D"), JStr(""), JStr("9/1/2023"), JStr("1003"))>>
    /\ latest[1].ID = JStr("1003")

\* the candidate the sort puts first
ChosenCandidate == latest_order(delivery_candidates(OrdersRaw))
LacksIdentifier(o) == o.ID.t \in {"absent", "null"} \/ o.ID = JStr("")

\* C18: when the chosen candidate's ID is missing, null or empty, the result
\* is absent and no order-detail request is issued; an order-detail request
\* is issued only for an identifier the chosen candidate has.
C18_NoRequestWithoutId ==
    (pc \in {"detail", "returned"} /\ async_get_list(response).exc = "none"
        /\ Candidates # {} /\ ChosenCandidate.exc = "none") =>
        /\ LacksIdentifier(ChosenCandidate.val[1]) =>
              /\ pc = "returned"
              /\ call_result.res = Returned(None)
              /\ ~HasRequest("get", 1)
        /\ (pc = "detail" \/ HasRequest("get", 1)) =>
              ~LacksIdentifier(latest[1])

(***************************************************************************)
(* Claims about _parse_order_detail (SpecDetail)                           *)
(***************************************************************************)
DetailParsed ==
    /\ pc = "detail_parsed"
    /\ call_result.op = "parse_order_detail"
    /\ call_result.res.exc = "none"
OrderDetail == call_result.res.val
RawLines == IF response.data.Lines.isList THEN response.data.Lines.items ELSE <<>>
ObjectLines == SelectSeq(RawLines, LAMBDA l : l.isDict)
HasLine(product) == \E k \in 1..Len(ObjectLines) : ObjectLines[k].Product = JStr(product)
NumberOrZero(v) == IF v.t = "int" THEN 10 * v.n ELSE IF v.t = "float" THEN v.n ELSE 0

Parsed == pc = "parsed"
ParsedTanks == account_data[1].tanks

\* C7: the tanks of a parsed snapshot have pairwise distinct
\* installed_product_id values, whatever the payload.
C7_DistinctIds ==
    Parsed =>
        \A i, j \in 1..Len(ParsedTanks) :
            i # j => ParsedTanks[i].installed_product_id # ParsedTanks[j].installed_product_id

\* where each tank of the result comes from: <<site position, entry position>>
\* (1-based) of the object entries of the object sites whose IPSummary is a list
RECURSIVE EntryOrigins(_, _, _)
EntryOrigins(sites, i, k) ==
    IF i > Len(sites) THEN <<>>
    ELSE IF ~sites[i].isDict \/ ~sites[i].IPSummary.isList
            \/ k > Len(sites[i].IPSummary.items)
    THEN EntryOrigins(sites, i + 1, 1)
    ELSE (IF sites[i].IPSummary.items[k].isDict THEN <<(<<i, k>>)>> ELSE <<>>)
         \o EntryOrigins(sites, i, k + 1)
Origins ==
    IF payload.SiteSummary.isList THEN EntryOrigins(payload.SiteSummary.items, 1, 1)
    ELSE <<>>
RawIdAt(o) == payload.SiteSummary.items[o[1]].IPSummary.items[o[2]].InstalledProductId

\* C8: a tank whose InstalledProductId is missing, empty or not a string gets
\* "{site_id}_{index}", index being the entry's zero-based position in the
\* site's raw tank list; a non-empty string id is used unchanged.
C8_FallbackId ==
    Parsed =>
        /\ Len(ParsedTanks) = Len(Origins)
        /\ \A j \in 1..Len(ParsedTanks) :
              ParsedTanks[j].installed_product_id =
                  IF RawIdAt(Origins[j]).t = "str" /\ RawIdAt(Origins[j]).s # ""
                  THEN RawIdAt(Origins[j]).s
                  ELSE ParsedTanks[j].site_id \o "_" \o ToString(Origins[j][2] - 1)

\* a malformed entry precedes an entry without id, which still gets its raw index
C8_Witness ==
    /\ Parsed
    /\ Len(ParsedTanks) = 1
    /\ Origins = <<(<<1, 2>>)>>
    /\ RawIdAt(Origins[1]) = JInt(5)
    /\ ParsedTanks[1].installed_product_id = "S1_1"

EntryAt(o) == payload.SiteSummary.items[o[1]].IPSummary.items[o[2]]
SiteIdAt(i) ==
    IF Truthy(payload.SiteSummary.items[i].SiteId)
    THEN PyStr(payload.SiteSummary.items[i].SiteId)
    ELSE "site_" \o ToString(i - 1)

\* C14: _parse_account_summary never raises, whatever the payload object, and
\* its tanks are, in payload order, one per object entry of the IPSummary
\* array of each object entry of the SiteSummary array; a SiteSummary that is
\* not an array gives no tank, a site whose IPSummary is not an array gives
\* none, and entries that are not objects are skipped.
C14_DefensiveTraversal ==
    /\ pc # "raised"
    /\ Parsed =>
          /\ Len(ParsedTanks) = Len(Origins)
          /\ ~payload.SiteSummary.isList => ParsedTanks = <<>>
          /\ \A j \in 1..Len(ParsedTanks) :
                ParsedTanks[j] =
                    parse_tank(EntryAt(Origins[j]), Origins[j][2] - 1,
                               SiteIdAt(Origins[j][1]), ParsedTanks[j].site_name)

IsJsonNumber(v) == v.t \in {"int", "float"}
\* the float of a JSON number, in tenths
NumberOf(v) == IF v.t = "int" THEN 10 * v.n ELSE v.n
Coerced(v) == IF IsJsonNumber(v) THEN Some(NumberOf(v)) ELSE None

\* C19: full_capacity, fill_capacity and est_curr_pct of a tank are the
\* payload field's value when that is a JSON integer or float, unclamped, and
\* absent for every other value: a string, null, a boolean, an array, an
\* object, a missing key.
C19_NumericCoercion ==
    Parsed =>
        \A j \in 1..Len(ParsedTanks) :
            /\ ParsedTanks[j].full_capacity = Coerced(EntryAt(Origins[j]).FullCapacity)
            /\ ParsedTanks[j].fill_capacity = Coerced(EntryAt(Origins[j]).FillCapacity)
            /\ ParsedTanks[j].est_curr_pct = Coerced(EntryAt(Origins[j]).EstCurrPct)

(***************************************************************************)
(* Claims about the derived sensor values (SpecSensor)                     *)
(***************************************************************************)
Shown == pc = "shown"
Abs(x) == IF x < 0 THEN -x ELSE x
\* v is n / d rounded to the nearest integer
IsRounded(v, n, d) == 2 * Abs(n - v * d) <= d

Fill == sensor_tank.fill_capacity
Pct == sensor_tank.est_curr_pct
Full == sensor_tank.full_capacity
PricePresent ==
    /\ sensor_tank.last_delivery # None
    /\ sensor_tank.last_delivery[1].propane_price_per_gallon # None
Price == sensor_tank.last_delivery[1].propane_price_per_gallon[1]
\* fill - pct/100 * full and pct/100 * full, in units of 10^-4 gallon
UsageE4 == 1000 * Fill[1] - Pct[1] * Full[1]
LevelE4 == Pct[1] * Full[1]

\* C9: gallons_used_since_fill is present exactly when fill_capacity,
\* est_curr_pct and full_capacity are present and fill_capacity >=
\* est_curr_pct/100 * full_capacity; it is then that difference rounded to one
\* decimal, and not negative.  estimated_usage_cost is present exactly when
\* gallons_used_since_fill is and the last delivery has a price per gallon; it
\* is then the difference times the price, rounded to two decimals.
C9_UsageSinceFill ==
    Shown =>
        LET used == native_value.gallons_used_since_fill
            cost == native_value.estimated_usage_cost
        IN  /\ (used # None) <=>
                   (Fill # None /\ Pct # None /\ Full # None /\ UsageE4 >= 0)
            /\ used # None => (IsRounded(used[1], UsageE4, 1000) /\ used[1] >= 0)
            /\ (cost # None) <=> (used # None /\ PricePresent)
            /\ cost # None => IsRounded(cost[1], UsageE4 * Price, 1000)

\* fill 450.0, 40.0 %, full 500.0, 2.5 per gallon: 250.0 gallons, 625.00
C9_Witness ==
    /\ Shown
    /\ Fill = Some(4500) /\ Pct = Some(400) /\ Full = Some(5000)
    /\ PricePresent /\ Price = 25
    /\ native_value.gallons_used_since_fill = Some(2500)
    /\ native_value.estimated_usage_cost = Some(62500)

\* C10: estimated_gallons is present exactly when est_curr_pct and
\* full_capacity are, and is then est_curr_pct/100 * full_capacity rounded to
\* one decimal; estimated_value is present exactly when, in addition, the last
\* delivery has a price per gallon, and is then est_curr_pct/100 *
\* full_capacity * price rounded to two decimals.  Absent means absent: no 0
\* or other default stands in.
C10_EstimatedGallonsValue ==
    Shown =>
        LET gallons == native_value.estimated_gallons
            value == native_value.estimated_value
        IN  /\ (gallons # None) <=> (Pct # None /\ Full # None)
            /\ gallons # None => IsRounded(gallons[1], LevelE4, 1000)
            /\ (value # None) <=> (Pct # None /\ Full # None /\ PricePresent)
            /\ value # None => IsRounded(value[1], LevelE4 * Price, 1000)

\* 40.0 %, full 500.0, 2.5 per gallon: 200.0 gallons worth 500.00
C10_Witness ==
    /\ Shown
    /\ Pct = Some(400) /\ Full = Some(5000)
    /\ PricePresent /\ Price = 25
    /\ native_value.estimated_gallons = Some(2000)
    /\ native_value.estimated_value = Some(50000)

(***************************************************************************)
(* Claims about a tank entity across refresh cycles (SpecEntity)           *)
(***************************************************************************)
EntityRead == pc = "entity_read"

\* C21: whenever a tank entity is read, after any number of refresh cycles,
\* it is resolved by its installed_product_id in the snapshot that is current
\* then: when no tank of the current snapshot has the entity's id the entity
\* is unavailable and every sensor value is absent, and when one has it the
\* values are those computed from that tank of the current snapshot (the
\* first with the id), and the entity is available exactly when the last
\* refresh succeeded.
C21_EntityResolvesById ==
    EntityRead =>
        /\ ~InSnapshot => (~available /\ \A key \in DOMAIN native_value : native_value[key] = None)
        /\ InSnapshot => /\ native_value = value_fn(EntityTank)
                         /\ available <=> last_update_success

\* the entity's tank left the account in a later cycle that succeeded, while
\* another tank is still there
C21_Witness ==
    /\ EntityRead
    /\ refreshes >= 1
    /\ last_update_success
    /\ ~InSnapshot
    /\ Len(SnapshotTanks) > 0

(***************************************************************************)
(* Claims about the setup wizard (SpecFlow)                                *)
(***************************************************************************)
EntryCreated == flow_result.type = "create_entry"
EntryData == flow_result.data[1]
CredentialsSubmitted == pc = "step_user" /\ call_result.op = "get_accounts"
Validated == call_result.res.exc = "none"
Fetched == call_result.res.val
AccountStepCalled == pc = "step_account"

\* C22: after any sequence of user and account steps of one flow, an entry is
\* created only with an account id that a validation which succeeded in that
\* flow returned.  A submission whose validation fails creates no entry; one
\* that returns no account shows the user form with no_accounts; one that
\* returns exactly one account creates the entry with the submitted
\* credentials and that account (or aborts, the account being configured
\* already); one that returns several shows the account form and keeps the
\* list; the account step creates an entry only with an id of the kept list,
\* and aborts when no credentials were entered.
C22_EntryOnlyForFetchedAccount ==
    /\ EntryCreated => /\ flow_user_input # None
                       /\ EntryData.account_id \in flow_fetched
    /\ CredentialsSubmitted /\ ~Validated =>
          /\ ~EntryCreated
          /\ flow_result.type \in {"form", "raised"}
          /\ flow_result.type = "form" =>
                flow_result.step_id = "user" /\ flow_result.error # ""
    /\ CredentialsSubmitted /\ Validated /\ Len(Fetched) = 0 =>
          flow_result = ShowForm("user", "no_accounts")
    /\ CredentialsSubmitted /\ Validated /\ Len(Fetched) = 1 =>
          \/ /\ EntryCreated
             /\ EntryData = [username |-> flow_user_input[1].username,
                             password |-> flow_user_input[1].password,
                             account_id |-> Fetched[1]]
          \/ flow_result = Abort("already_configured")
    /\ CredentialsSubmitted /\ Validated /\ Len(Fetched) > 1 =>
          /\ flow_result = ShowForm("account", "")
          /\ flow_accounts = Fetched
    /\ AccountStepCalled /\ EntryCreated =>
          /\ EntryData.account_id \in Elements(flow_accounts)
          /\ Elements(flow_accounts) \subseteq flow_fetched
    /\ AccountStepCalled /\ flow_user_input = None => flow_result = Abort("unknown")

\* several accounts were returned and the account step created the entry for
\* one of them
C22_Witness ==
    /\ AccountStepCalled
    /\ EntryCreated
    /\ Cardinality(flow_fetched) > 1
====
